---- MODULE Spec2Model ----
(***************************************************************************)
(* Backend dispatch of axlearn's flash attention: the function jit_attn   *)
(* returned by flash_attention_implementation                              *)
(* (axlearn/common/flash_attention/utils.py).                              *)
(*                                                                         *)
(* A built attention function is a closure over (backend, block_size).    *)
(* Each call receives query/key/value tensors (modelled by their shape    *)
(* and dtype) and an attention bias (a tree of typed leaves), and ends    *)
(* either by invoking one compute path with a reduced bias or by raising. *)
(*                                                                         *)
(* Dense tensors produced by bias.value() are modelled as bags of the     *)
(* additive terms they are the sum of, so that losing, duplicating or     *)
(* mis-routing a bias component changes the value.                         *)
(***************************************************************************)
EXTENDS Integers, Sequences, FiniteSets, Bags, TLC

\* ------------------------------------------------------------------------
\* Bounds of the model.
\* ------------------------------------------------------------------------
MaxLen == 3
MaxBatch == 2
MaxHeads == 2
MaxPos == 1
MaxLeaves == 2
MaxBlock == 2
RefLen == 4
RefHeads == 4
NumCalls == 2
SysMaxSize == 6
MaxFeedBatch == 3
MaxFixedLength == 3
MaxStops == 2
MaxDatasetLen == 10
MaxProcesses == 4
MaxChain == 2
MaxStream == 3
MaxRows == 2

\* ------------------------------------------------------------------------
\* Optional values: None is the empty sequence, Some(x) the one-element one.
\* ------------------------------------------------------------------------
None == << >>

Some(x) == << x >>

\* ------------------------------------------------------------------------
\* Dense tensors: a bag of additive terms.
\* ------------------------------------------------------------------------
Term(k, b, tp) == [k |-> k, batch |-> b, tp |-> tp]

Dense(term) == SetToBag({term})

\* Sum of two optional dense tensors; None stands for "adds zero".
AddValue(a, b) ==
    IF a = None THEN b
    ELSE IF b = None THEN a
    ELSE Some(a[1] (+) b[1])

\* ------------------------------------------------------------------------
\* The bias algebra (axlearn.common.attention_bias).
\* ------------------------------------------------------------------------
Bias(kind, batch, tp, tensor, biases) ==
    [kind |-> kind, batch |-> batch, target_positions |-> tp,
     tensor |-> tensor, biases |-> biases]

ZeroAttentionBias == Bias("Zero", 0, None, None, << >>)

CausalAttentionBias == Bias("Causal", 0, None, None, << >>)

\* segment_ids has shape [batch, length]; only its batch dim is inspected.
SegmentIdAttentionBias(batch) == Bias("SegmentId", batch, None, None, << >>)

\* target_positions is None or Some(tensor of per-row offsets).
MaskFnAttentionBias(tp) == Bias("MaskFn", 0, tp, None, << >>)

\* value is None or Some(dense tensor).
TensorAttentionBias(value) == Bias("Tensor", 0, None, value, << >>)

CompositeAttentionBias(biases) == Bias("Composite", 0, None, None, biases)

RECURSIVE SumValues(_, _)
SumValues(vals, i) ==
    IF i > Len(vals) THEN None
    ELSE AddValue(vals[i], SumValues(vals, i + 1))

RECURSIVE value(_)
value(b) ==
    CASE b.kind = "Zero" -> None
      [] b.kind = "Causal" -> Some(Dense(Term("causal", 0, None)))
      [] b.kind = "SegmentId" -> Some(Dense(Term("segment", b.batch, None)))
      [] b.kind = "MaskFn" -> Some(Dense(Term("maskfn", 0, b.target_positions)))
      [] b.kind = "Tensor" -> b.tensor
      [] b.kind = "Composite" ->
            SumValues([i \in 1..Len(b.biases) |-> value(b.biases[i])], 1)

RECURSIVE Flatten(_, _)
RECURSIVE Leaves(_)
Flatten(bs, i) ==
    IF i > Len(bs) THEN << >>
    ELSE Leaves(bs[i]) \o Flatten(bs, i + 1)

\* The flattened leaf list of a bias: nested composites are absorbed.
Leaves(b) ==
    IF b.kind = "Composite" THEN Flatten(b.biases, 1) ELSE << b >>

SelectKind(leaves, kind) == SelectSeq(leaves, LAMBDA l : l.kind = kind)

RejectKind(leaves, kind) == SelectSeq(leaves, LAMBDA l : l.kind # kind)

\* The output slot of one requested variant: the Zero sentinel when nothing
\* matched, the leaf itself when one matched, the sum of the matches otherwise.
from_sequence(matched) ==
    IF Len(matched) = 0 THEN ZeroAttentionBias
    ELSE IF Len(matched) = 1 THEN matched[1]
    ELSE CompositeAttentionBias(matched)

RECURSIVE SplitLeaves(_, _, _)
SplitLeaves(leaves, classes, i) ==
    IF i > Len(classes) THEN << CompositeAttentionBias(leaves) >>
    ELSE << from_sequence(SelectKind(leaves, classes[i])) >>
            \o SplitLeaves(RejectKind(leaves, classes[i]), classes, i + 1)

\* Faulty variant: the residual keeps the leaves that were matched.
splitResidualKeepsAll(bias, classes) ==
    [i \in 1..(Len(classes) + 1) |->
        IF i <= Len(classes)
        THEN from_sequence(SelectKind(Leaves(bias), classes[i]))
        ELSE CompositeAttentionBias(Leaves(bias))]

\* split(bias, *cls): one output per requested variant, then the residual.
split(bias, classes) == SplitLeaves(Leaves(bias), classes, 1)

\* segment_ids.eval_shape()[0]
eval_shape0(segment_ids) == segment_ids.batch

\* segment_ids.segment_ids: the [batch, length] tensor of the bias.
SegmentIdsTensor(segment_ids) == Term("segment", segment_ids.batch, None)

\* explicit_bias += segment_ids
AddBias(a, b) == CompositeAttentionBias(<< a, b >>)

\* ------------------------------------------------------------------------
\* Tensors: shape [batch, len, heads, per_head_dim] and dtype.
\* ------------------------------------------------------------------------
Tensor(batch, len, heads, dtype) ==
    [batch |-> batch, len |-> len, heads |-> heads, dtype |-> dtype]

NoTensor == Tensor(0, 0, 0, "")

\* jnp.repeat along one axis: every element n times, consecutively.
jnp_repeat(axis, n) ==
    [j \in 1..(Len(axis) * n) |-> axis[((j - 1) \div n) + 1]]

\* The head axis of a tensor with n heads, each head named by its index.
HeadAxis(n) == [i \in 1..n |-> i]

\* Faulty variant: the heads are tiled instead of repeated.
RepeatedHeadsTiled(num_q_heads, heads) ==
    LET num_head_repeats == num_q_heads \div Len(heads)
    IN  [j \in 1..(Len(heads) * num_head_repeats) |->
            heads[((j - 1) % Len(heads)) + 1]]

\* _repeat_kv_heads on the head axis of key_or_value.
RepeatedHeads(num_q_heads, heads) ==
    LET num_head_repeats == num_q_heads \div Len(heads)
    IN  IF num_head_repeats = 1 THEN heads
        ELSE jnp_repeat(heads, num_head_repeats)

\* _repeat_kv_heads on a tensor, of which the model keeps the head count.
_repeat_kv_heads(num_q_heads, key_or_value) ==
    [key_or_value EXCEPT
        !.heads = Len(RepeatedHeads(num_q_heads, HeadAxis(key_or_value.heads)))]

\* ------------------------------------------------------------------------
\* mha_reference: the positions (batch row, target, source) whose logit is
\* replaced by NEG_INF before the bias is added.  Indices start at 0.
\* ------------------------------------------------------------------------
\* Faulty variant: the segment ids are compared with < instead of !=.
segment_mask_lt(segment_ids, b, t, s) ==
    segment_ids[b + 1][s + 1] < segment_ids[b + 1][t + 1]

\* jax.lax.ne(source_segment_ids, target_segment_ids)
segment_mask(segment_ids, b, t, s) ==
    segment_ids[b + 1][s + 1] # segment_ids[b + 1][t + 1]

\* Faulty variant: the diagonal is masked as well.
causal_mask_le(t, s) == t <= s

\* row_ids < col_ids
causal_mask(t, s) == t < s

mha_reference_excluded(batch, tlen, slen, segment_ids, causal) ==
    {p \in (0..(batch - 1)) \X (0..(tlen - 1)) \X (0..(slen - 1)) :
        \/ segment_ids # None /\ segment_mask(segment_ids[1], p[1], p[2], p[3])
        \/ causal /\ causal_mask(p[2], p[3])}

\* ------------------------------------------------------------------------
\* Outcome of one call: a compute path invoked with arguments, or a raise.
\* ------------------------------------------------------------------------
NoOutcome ==
    [kind |-> "none", fn |-> "", error |-> "", backend |-> "",
     query |-> NoTensor, key |-> NoTensor, value |-> NoTensor,
     bias |-> None, segment_ids |-> None, causal |-> FALSE,
     mask |-> None, kv_seq_len |-> None]

Raise(error, backend) ==
    [NoOutcome EXCEPT !.kind = "raise", !.error = error, !.backend = backend]

Invoke(fn, backend, query, key, val) ==
    [NoOutcome EXCEPT !.kind = "call", !.fn = fn, !.backend = backend,
                      !.query = query, !.key = key, !.value = val]

\* ------------------------------------------------------------------------
\* jit_attn
\* ------------------------------------------------------------------------
is_gpu_decoding(query, backend) == query.len = 1 /\ backend = "gpu"

\* Faulty variant: the divisibility fallback is missing.
ResolveBackendNoDivisibility(query, backend, block_size) ==
    IF ~is_gpu_decoding(query, backend) /\ query.len = 1 THEN "xla" ELSE backend

\* Faulty variant: every call but GPU decoding falls back.
ResolveBackendAlwaysFallback(query, backend, block_size) ==
    IF ~is_gpu_decoding(query, backend) THEN "xla" ELSE backend

\* The backend after the two fallbacks at the head of jit_attn.
ResolveBackend(query, backend, block_size) ==
    LET b1 == IF ~is_gpu_decoding(query, backend) /\ query.len % block_size # 0
              THEN "xla" ELSE backend
    IN  IF ~is_gpu_decoding(query, backend) /\ query.len = 1 THEN "xla" ELSE b1

\* Faulty variant: the single-token collapse is missing.
ResolveBiasNoCollapse(query, backend, bias) ==
    CompositeAttentionBias(<< bias >>)

\* The bias after the single-token collapse and the Composite wrapping.
ResolveBias(query, backend, bias) ==
    LET b1 == IF ~is_gpu_decoding(query, backend) /\ query.len = 1
              THEN TensorAttentionBias(value(bias)) ELSE bias
    IN  CompositeAttentionBias(<< b1 >>)

\* Faulty variant: the batch dim of the segment ids is not checked.
get_segment_ids_no_batch_check(segment_ids, query, key) ==
    IF value(segment_ids) = None THEN [raised |-> FALSE, ids |-> None]
    ELSE IF query.len # key.len THEN [raised |-> TRUE, ids |-> None]
    ELSE [raised |-> FALSE, ids |-> Some(SegmentIdsTensor(segment_ids))]

\* Faulty variant: the presence test on segment_ids.value() is missing.
get_segment_ids_no_presence_test(segment_ids, query, key) ==
    IF query.len # key.len THEN [raised |-> TRUE, ids |-> None]
    ELSE IF eval_shape0(segment_ids) # query.batch THEN [raised |-> TRUE, ids |-> None]
    ELSE [raised |-> FALSE, ids |-> Some(SegmentIdsTensor(segment_ids))]

\* get_segment_ids: [raised, ids]; ids is None when there are no segment ids.
get_segment_ids(segment_ids, query, key) ==
    IF value(segment_ids) = None THEN [raised |-> FALSE, ids |-> None]
    ELSE IF query.len # key.len THEN [raised |-> TRUE, ids |-> None]
    ELSE IF eval_shape0(segment_ids) # query.batch THEN [raised |-> TRUE, ids |-> None]
    ELSE [raised |-> FALSE, ids |-> Some(SegmentIdsTensor(segment_ids))]

\* Faulty variant: the offset itself is taken as the length.
KvSeqLenOffByOne(target_positions) == target_positions

\* kv_seq_len = mask.target_positions + 1, elementwise over the batch rows.
KvSeqLen(target_positions) ==
    [i \in 1..Len(target_positions) |-> target_positions[i] + 1]

\* Faulty variant: the decode kernel is invoked without the check.
GpuDecodingNoCheck(query, key, val, bias) ==
    LET parts == split(bias, << "MaskFn" >>)
        mask == parts[1]
        explicit_bias == parts[2]
    IN  [Invoke("flash_decoding", "gpu", query, key, val) EXCEPT
            !.bias = value(explicit_bias),
            !.mask = Some(mask),
            !.kv_seq_len = IF mask.target_positions = None THEN None
                           ELSE Some(KvSeqLen(mask.target_positions[1]))]

\* backend == "gpu" and query.shape[1] == 1.  split never yields a null
\* slot, so of `mask is None or mask.target_positions is None` the second
\* test decides; the Zero sentinel carries no target_positions.
GpuDecoding(query, key, val, bias) ==
    LET parts == split(bias, << "MaskFn" >>)
        mask == parts[1]
        explicit_bias == parts[2]
    IN  IF mask.target_positions = None
        THEN Raise("RuntimeError", "gpu")
        ELSE [Invoke("flash_decoding", "gpu", query, key, val) EXCEPT
                !.bias = value(explicit_bias),
                !.mask = Some(mask),
                !.kv_seq_len = Some(KvSeqLen(mask.target_positions[1]))]

\* Faulty variant: only the dtype of the query is inspected.
UseTritonKernelQueryDtypeOnly(segment_ids, explicit_bias, query, key, val) ==
    \/ value(segment_ids) # None
    \/ value(explicit_bias) # None
    \/ query.dtype = "float32"

\* The condition under which the GPU general path uses the Triton kernel.
UseTritonKernel(segment_ids, explicit_bias, query, key, val) ==
    \/ value(segment_ids) # None
    \/ value(explicit_bias) # None
    \/ "float32" \in {query.dtype, key.dtype, val.dtype}

\* The GPU general path after the length check: kernel choice and call.
GpuKernels(query, key0, val0, bias) ==
    LET key == _repeat_kv_heads(query.heads, key0)
        val == _repeat_kv_heads(query.heads, val0)
        parts == split(bias, << "Causal", "SegmentId" >>)
        causal == parts[1]
        segment_ids == parts[2]
        explicit_bias == parts[3]
        seg == get_segment_ids(segment_ids, query, key)
    IN  IF UseTritonKernel(segment_ids, explicit_bias, query, key, val)
        THEN IF seg.raised THEN Raise("ValueError", "gpu")
             ELSE [Invoke("gpu_flash_attention", "gpu", query, key, val) EXCEPT
                     !.bias = value(explicit_bias),
                     !.segment_ids = seg.ids,
                     !.causal = (value(causal) # None)]
        ELSE [Invoke("cudnn_dot_product_attention", "gpu", query, key, val) EXCEPT
                !.bias = value(AddBias(explicit_bias, segment_ids)),
                !.causal = (value(causal) # None)]

\* Faulty variant: the query/key length check is missing.
GpuGeneralNoLengthCheck(query, key0, val0, bias) ==
    GpuKernels(query, key0, val0, bias)

\* backend == "gpu" and query.shape[1] > 1
GpuGeneral(query, key0, val0, bias) ==
    IF query.len # key0.len THEN Raise("NotImplementedError", "gpu")
    ELSE GpuKernels(query, key0, val0, bias)

\* Faulty variant: the mask is passed even when it is the Zero sentinel.
TpuBranchAlwaysPassesMask(query, key0, val0, bias) ==
    LET key == _repeat_kv_heads(query.heads, key0)
        val == _repeat_kv_heads(query.heads, val0)
        parts == split(bias, << "MaskFn", "SegmentId" >>)
        mask == parts[1]
        segment_ids == parts[2]
        explicit_bias == parts[3]
        seg == get_segment_ids(segment_ids, query, key)
    IN  IF seg.raised THEN Raise("ValueError", "tpu")
        ELSE [Invoke("tpu_flash_attention", "tpu", query, key, val) EXCEPT
                !.bias = value(explicit_bias),
                !.segment_ids = seg.ids,
                !.mask = Some(mask)]

\* backend == "tpu".  The mask is passed unless it is the Zero sentinel.
TpuBranch(query, key0, val0, bias) ==
    LET key == _repeat_kv_heads(query.heads, key0)
        val == _repeat_kv_heads(query.heads, val0)
        parts == split(bias, << "MaskFn", "SegmentId" >>)
        mask == parts[1]
        segment_ids == parts[2]
        explicit_bias == parts[3]
        seg == get_segment_ids(segment_ids, query, key)
    IN  IF seg.raised THEN Raise("ValueError", "tpu")
        ELSE [Invoke("tpu_flash_attention", "tpu", query, key, val) EXCEPT
                !.bias = value(explicit_bias),
                !.segment_ids = seg.ids,
                !.mask = IF mask.kind # "Zero" THEN Some(mask) ELSE None]

\* Faulty variant: the causal flag is not passed on.
XlaBranchCausalDropped(query, key0, val0, bias, backend) ==
    LET key == _repeat_kv_heads(query.heads, key0)
        val == _repeat_kv_heads(query.heads, val0)
        parts == split(bias, << "Causal", "SegmentId" >>)
        segment_ids == parts[2]
        explicit_bias == parts[3]
        seg == get_segment_ids(segment_ids, query, key)
    IN  IF seg.raised THEN Raise("ValueError", backend)
        ELSE [Invoke("mha_reference", backend, query, key, val) EXCEPT
                !.bias = value(explicit_bias),
                !.segment_ids = seg.ids]

\* Faulty variant: the rejection by get_segment_ids is ignored.
XlaBranchIgnoresRejection(query, key0, val0, bias, backend) ==
    LET key == _repeat_kv_heads(query.heads, key0)
        val == _repeat_kv_heads(query.heads, val0)
        parts == split(bias, << "Causal", "SegmentId" >>)
        causal == parts[1]
        segment_ids == parts[2]
        explicit_bias == parts[3]
    IN  [Invoke("mha_reference", backend, query, key, val) EXCEPT
            !.bias = value(explicit_bias),
            !.segment_ids = IF value(segment_ids) = None THEN None
                            ELSE Some(SegmentIdsTensor(segment_ids)),
            !.causal = (value(causal) # None)]

\* backend in ("cpu", "xla")
XlaBranch(query, key0, val0, bias, backend) ==
    LET key == _repeat_kv_heads(query.heads, key0)
        val == _repeat_kv_heads(query.heads, val0)
        parts == split(bias, << "Causal", "SegmentId" >>)
        causal == parts[1]
        segment_ids == parts[2]
        explicit_bias == parts[3]
        seg == get_segment_ids(segment_ids, query, key)
    IN  IF seg.raised THEN Raise("ValueError", backend)
        ELSE [Invoke("mha_reference", backend, query, key, val) EXCEPT
                !.bias = value(explicit_bias),
                !.segment_ids = seg.ids,
                !.causal = (value(causal) # None)]

\* The branch on the resolved backend, with the resolved bias.
Dispatch(query, key, val, bias, backend) ==
    IF backend = "gpu"
    THEN IF query.len = 1 THEN GpuDecoding(query, key, val, bias)
         ELSE GpuGeneral(query, key, val, bias)
    ELSE IF backend = "tpu" THEN TpuBranch(query, key, val, bias)
    ELSE IF backend \in {"cpu", "xla"} THEN XlaBranch(query, key, val, bias, backend)
    ELSE Raise("NotImplementedError", backend)

jit_attn(query, key, val, bias0, backend0, block_size) ==
    Dispatch(query, key, val, ResolveBias(query, backend0, bias0),
             ResolveBackend(query, backend0, block_size))

\* Faulty variant: the downgrade is written to the backend of the closure.
ClosureBackendOverwritten(configured, resolved) == resolved

\* The backend of the enclosing flash_attention_implementation after a call
\* resolved its own: `backend` in jit_attn is the call's keyword parameter,
\* so the assignment binds the call's local name only.
ClosureBackend(configured, resolved) == configured

\* ------------------------------------------------------------------------
\* Inputs of the model.
\* ------------------------------------------------------------------------
\* "rocm" stands for any name outside the Literal["cpu", "tpu", "gpu", "xla"].
Backends == {"cpu", "gpu", "tpu", "xla", "rocm"}

KnownBackends == {"cpu", "gpu", "tpu", "xla"}

BlockSizes == 2..MaxBlock

DTypes == {"bfloat16", "float32"}

\* target_positions tensors of shape [batch]: one row, or two rows that differ.
TargetPositions ==
    {<< p >> : p \in 0..MaxPos} \cup {<< 0, p >> : p \in 1..MaxPos}

\* An explicit dense bias supplied by the caller.
CallerTensor == Some(Dense(Term("tensor", 0, None)))

LeafBiases ==
    {ZeroAttentionBias, CausalAttentionBias, TensorAttentionBias(CallerTensor)}
    \cup {SegmentIdAttentionBias(b) : b \in 1..MaxBatch}
    \cup {MaskFnAttentionBias(None)}
    \cup {MaskFnAttentionBias(Some(tp)) : tp \in TargetPositions}

CountKind(leaves, kind) == Len(SelectKind(leaves, kind))

LeafSeqs == UNION {[1..n -> LeafBiases] : n \in 0..MaxLeaves}

\* A bias carries at most one SegmentId and at most one MaskFn leaf.
WellFormed(bias) ==
    /\ CountKind(Leaves(bias), "SegmentId") <= 1
    /\ CountKind(Leaves(bias), "MaskFn") <= 1

\* Composites holding one leaf of every kind.
FullBiases ==
    {CompositeAttentionBias(<< CausalAttentionBias, SegmentIdAttentionBias(b),
                               TensorAttentionBias(CallerTensor), m >>) :
        b \in 1..MaxBatch, m \in {l \in LeafBiases : l.kind = "MaskFn"}}

\* Leaves, composites of leaves, and composites nested one level deeper.
InputBiases ==
    LET flat == {CompositeAttentionBias(s) : s \in LeafSeqs}
        nested == {CompositeAttentionBias(<< CompositeAttentionBias(<< a >>), b >>) :
                     a \in LeafBiases, b \in LeafBiases}
    IN  {b \in LeafBiases \cup flat \cup nested \cup FullBiases : WellFormed(b)}

\* ------------------------------------------------------------------------
\* State.
\* ------------------------------------------------------------------------
VARIABLES
    backend,      \* configured backend of the built function
    block_size,   \* configured block size of the built function
    pc,           \* "idle" or "done"
    query,        \* arguments of the last call
    key,
    val,
    bias,
    outcome,      \* what the last call did
    repeated,     \* last application of _repeat_kv_heads on a head axis
    reference,    \* last application of the masking of mha_reference
    calls,        \* the calls in progress on one built function, by slot
    padded,       \* last application of pad_for_evaluation
    fixed,        \* a _FixedLengthDatasetIterator being iterated
    shard,        \* a _ShardDataset and the last operation on it
    pipeline,     \* last application of Input.dataset
    unbatch       \* an _UnbatchDatasetIterator being iterated

vars == << backend, block_size, pc, query, key, val, bias, outcome,
           repeated, reference, calls, padded, fixed, shard, pipeline, unbatch >>

\* The variables of the dispatcher.
dispatchVars == << backend, block_size, pc, query, key, val, bias, outcome >>

\* The variables of the functions applied on their own.
functionVars == << repeated, reference >>

\* A slot in which no call is in progress.
NoCall ==
    [pc |-> "idle", query |-> NoTensor, key |-> NoTensor, value |-> NoTensor,
     bias |-> ZeroAttentionBias, local_backend |-> "",
     local_bias |-> ZeroAttentionBias, outcome |-> NoOutcome]

CallSlots == 1..NumCalls

NoCalls == [i \in CallSlots |-> NoCall]

\* The variables of the input pipeline (input_grain).
grainVars == << padded, fixed, shard, pipeline, unbatch >>

\* A dataset: its examples are 0..n-1; `known` tells whether len(ds) is
\* defined; `length` > 0 marks a _FixedLengthIterDataset of that length over
\* the n examples.
Dataset(known, n, length) == [known |-> known, n |-> n, length |-> length]

NoDataset == Dataset(TRUE, 0, 0)

NotPadded ==
    [applied |-> FALSE, ds |-> NoDataset, per_feed_batch_size |-> 0,
     max_num_examples |-> 0, process_count |-> 0, peer_target |-> 0,
     kind |-> "none", error |-> "", result |-> NoDataset]

\* A _FixedLengthDatasetIterator: the parent iterator is the position in a
\* parent of parent_len examples.
FixedLengthIterator(parent_len, parent_pos, length, i) ==
    [parent_len |-> parent_len, parent_pos |-> parent_pos,
     length |-> length, i |-> i]

NotIterating ==
    [active |-> FALSE, it |-> FixedLengthIterator(0, 0, 0, 0),
     yielded |-> << >>, stops |-> 0]

\* A _ShardDataset over a parent of parent_len examples: the slice
\* parent[start::step] and the flag set by the first __getitem__.
ShardDataset(parent_len, start, step, iterated) ==
    [parent_len |-> parent_len, start |-> start, step |-> step,
     iterated |-> iterated]

\* The last operation on the shard dataset: its arguments and what it gave.
NoShardOp ==
    [op |-> "none", error |-> "", process_count |-> 0, process_index |-> 0,
     num_shards |-> 0, shard_index |-> 0, index |-> 0, item |-> None]

NotSharded ==
    [active |-> FALSE, sd |-> ShardDataset(0, 0, 1, FALSE), last |-> NoShardOp]

\* A node of a dataset graph: its kind, its parents, and for a _ShardDataset
\* its read config.
Node(kind, parents, start, step) ==
    [kind |-> kind, parents |-> parents, start |-> start, step |-> step]

SourceDataset == Node("source", << >>, 0, 1)

NotBuilt ==
    [applied |-> FALSE, dispatcher |-> FALSE, num_shards |-> 0, shard_index |-> 0,
     source |-> SourceDataset, ds |-> SourceDataset, found |-> FALSE, error |-> ""]

\* An _UnbatchDatasetIterator: the parent iterator is the position in the
\* stream of batches; _current_batch is None or Some(position of the batch).
UnbatchIterator(parent, index, current_batch, parent_state) ==
    [parent |-> parent, index |-> index, current_batch |-> current_batch,
     parent_state |-> parent_state]

\* What a call of next gives: an element (row `index` of batch `batch` of the
\* stream) or the exception raised.
Outcome(kind, batch, index) == [kind |-> kind, batch |-> batch, index |-> index]

Raises(kind) == Outcome(kind, 0, 0)

\* _UnbatchDatasetIterator.__init__ over a parent at the start of its stream.
UnbatchDatasetIterator == UnbatchIterator(0, 0, None, 0)

\* `last` is what the last call of next gave, `saved` the state get_state
\* returned, `restored` whether that call of next came right after set_state.
NotUnbatching ==
    [active |-> FALSE, stream |-> << >>, it |-> UnbatchDatasetIterator,
     last |-> Raises("none"), saved |-> None, restored |-> FALSE]

\* Nothing of the input pipeline is in progress.
GrainIdle ==
    /\ padded = NotPadded
    /\ fixed = NotIterating
    /\ shard = NotSharded
    /\ pipeline = NotBuilt
    /\ unbatch = NotUnbatching

NotRepeated == [num_q_heads |-> 0, heads |-> << >>, result |-> << >>]

NotReferenced ==
    [applied |-> FALSE, batch |-> 0, tlen |-> 0, slen |-> 0,
     segment_ids |-> None, causal |-> FALSE, excluded |-> {}]

Init ==
    /\ backend \in Backends
    /\ block_size \in BlockSizes
    /\ pc = "idle"
    /\ query = NoTensor
    /\ key = NoTensor
    /\ val = NoTensor
    /\ bias = ZeroAttentionBias
    /\ outcome = NoOutcome
    /\ repeated = NotRepeated
    /\ reference = NotReferenced
    /\ calls = NoCalls
    /\ GrainIdle

\* jit_attn applied to the arguments of one call.
CallWith(q, k, v, b) ==
    /\ query' = q
    /\ key' = k
    /\ val' = v
    /\ bias' = b
    /\ outcome' = jit_attn(q, k, v, b, backend, block_size)

\* One call of the built function, from entry to return or raise.  The
\* arguments are drawn from two families: every bias with grouped-query
\* heads and one dtype for the three tensors; every head count and dtype
\* combination with a bias of one leaf or of one leaf of every kind.
Call ==
    /\ pc = "idle"
    /\ \/ \E batch \in 1..MaxBatch, tlen \in 1..MaxLen, slen \in 1..MaxLen,
             d \in DTypes, b \in InputBiases :
             CallWith(Tensor(batch, tlen, 2, d), Tensor(batch, slen, 1, d),
                      Tensor(batch, slen, 1, d), b)
       \/ \E batch \in 1..MaxBatch, tlen \in 1..MaxLen, slen \in 1..MaxLen,
             qh \in 1..MaxHeads, kvh \in 1..MaxHeads,
             qd \in DTypes, kd \in DTypes, vd \in DTypes,
             b \in LeafBiases \cup FullBiases :
             CallWith(Tensor(batch, tlen, qh, qd), Tensor(batch, slen, kvh, kd),
                      Tensor(batch, slen, kvh, vd), b)
    /\ pc' = "done"
    /\ UNCHANGED << backend, block_size, functionVars, calls, grainVars >>

\* The caller consumes the result; the built function is reusable.
Return ==
    /\ pc = "done"
    /\ pc' = "idle"
    /\ query' = NoTensor
    /\ key' = NoTensor
    /\ val' = NoTensor
    /\ bias' = ZeroAttentionBias
    /\ outcome' = NoOutcome
    /\ UNCHANGED << backend, block_size, functionVars, calls, grainVars >>

Next == Call \/ Return

Spec == Init /\ [][Next]_vars

\* ------------------------------------------------------------------------
\* _repeat_kv_heads and the masking of mha_reference, applied on their own
\* to inputs drawn from bounded sets.
\* ------------------------------------------------------------------------
SegmentValues == {0, 1}

\* Segment ids of shape [batch, length].
SegmentIdTensors(batch, length) ==
    [1..batch -> [1..length -> SegmentValues]]

FunctionInit ==
    /\ backend = "xla"
    /\ block_size = MaxBlock
    /\ pc = "idle"
    /\ query = NoTensor
    /\ key = NoTensor
    /\ val = NoTensor
    /\ bias = ZeroAttentionBias
    /\ outcome = NoOutcome
    /\ repeated = NotRepeated
    /\ reference = NotReferenced
    /\ calls = NoCalls
    /\ GrainIdle

\* No function application is in progress.
FunctionIdle == repeated = NotRepeated /\ reference = NotReferenced

RepeatKvHeads ==
    /\ FunctionIdle
    /\ \E q \in 1..RefHeads, kv \in 1..RefHeads :
          repeated' = [num_q_heads |-> q, heads |-> HeadAxis(kv),
                       result |-> RepeatedHeads(q, HeadAxis(kv))]
    /\ reference' = NotReferenced
    /\ UNCHANGED << dispatchVars, calls, grainVars >>

ReferenceWith(batch, tlen, slen, segment_ids, causal) ==
    reference' = [applied |-> TRUE, batch |-> batch, tlen |-> tlen, slen |-> slen,
                  segment_ids |-> segment_ids, causal |-> causal,
                  excluded |-> mha_reference_excluded(batch, tlen, slen,
                                                      segment_ids, causal)]

\* Segment ids describe one packed sequence per batch row, so they come with
\* target length = source length = their length and the batch of the query.
MhaReference ==
    /\ FunctionIdle
    /\ \E batch \in 1..MaxBatch, tlen \in 1..RefLen, causal \in BOOLEAN :
          \/ \E slen \in 1..RefLen :
                ReferenceWith(batch, tlen, slen, None, causal)
          \/ \E ids \in SegmentIdTensors(batch, tlen) :
                ReferenceWith(batch, tlen, tlen, Some(ids), causal)
    /\ repeated' = NotRepeated
    /\ UNCHANGED << dispatchVars, calls, grainVars >>

\* The applied function returns; it keeps no state.
FunctionReturn ==
    /\ ~FunctionIdle
    /\ repeated' = NotRepeated
    /\ reference' = NotReferenced
    /\ UNCHANGED << dispatchVars, calls, grainVars >>

FunctionNext == RepeatKvHeads \/ MhaReference \/ FunctionReturn

FunctionSpec == FunctionInit /\ [][FunctionNext]_vars

\* ------------------------------------------------------------------------
\* Interleaved calls on one built function.  A call binds its parameters,
\* resolves its backend and bias, dispatches, and returns; the steps of
\* different calls interleave freely.
\* ------------------------------------------------------------------------
ConcurrentInit ==
    /\ backend \in Backends
    /\ block_size \in BlockSizes
    /\ pc = "idle"
    /\ query = NoTensor
    /\ key = NoTensor
    /\ val = NoTensor
    /\ bias = ZeroAttentionBias
    /\ outcome = NoOutcome
    /\ repeated = NotRepeated
    /\ reference = NotReferenced
    /\ calls = NoCalls
    /\ GrainIdle

\* The biases of the interleaved calls: one leaf of every kind that the
\* single-token collapse turns into a dense tensor.
ConcurrentBiases ==
    {CausalAttentionBias, SegmentIdAttentionBias(1),
     MaskFnAttentionBias(Some(<< 0 >>))}

ConcurrentFrame ==
    UNCHANGED << pc, query, key, val, bias, outcome, functionVars, grainVars >>

\* Entry: the arguments are bound; `backend: str = backend` binds the local
\* backend to the configured one.
EnterCall(i) ==
    /\ calls[i].pc = "idle"
    /\ \E tlen \in 1..MaxLen, b \in ConcurrentBiases :
          calls' = [calls EXCEPT ![i] =
                      [NoCall EXCEPT !.pc = "entered",
                                     !.query = Tensor(1, tlen, 1, "bfloat16"),
                                     !.key = Tensor(1, tlen, 1, "bfloat16"),
                                     !.value = Tensor(1, tlen, 1, "bfloat16"),
                                     !.bias = b,
                                     !.local_backend = backend,
                                     !.local_bias = b]]
    /\ UNCHANGED << backend, block_size >>
    /\ ConcurrentFrame

\* The two fallbacks and the Composite wrapping at the head of jit_attn.
ResolveCall(i) ==
    /\ calls[i].pc = "entered"
    /\ LET c == calls[i]
           resolved == ResolveBackend(c.query, c.local_backend, block_size)
       IN  /\ calls' = [calls EXCEPT
                          ![i].pc = "resolved",
                          ![i].local_backend = resolved,
                          ![i].local_bias =
                              ResolveBias(c.query, c.local_backend, c.local_bias)]
           /\ backend' = ClosureBackend(backend, resolved)
    /\ UNCHANGED block_size
    /\ ConcurrentFrame

\* The branch on the call's resolved backend.
DispatchCall(i) ==
    /\ calls[i].pc = "resolved"
    /\ LET c == calls[i]
       IN  calls' = [calls EXCEPT
                       ![i].pc = "done",
                       ![i].outcome = Dispatch(c.query, c.key, c.value,
                                               c.local_bias, c.local_backend)]
    /\ UNCHANGED << backend, block_size >>
    /\ ConcurrentFrame

ReturnCall(i) ==
    /\ calls[i].pc = "done"
    /\ calls' = [calls EXCEPT ![i] = NoCall]
    /\ UNCHANGED << backend, block_size >>
    /\ ConcurrentFrame

ConcurrentNext ==
    \E i \in CallSlots :
        EnterCall(i) \/ ResolveCall(i) \/ DispatchCall(i) \/ ReturnCall(i)

ConcurrentSpec == ConcurrentInit /\ [][ConcurrentNext]_vars

\* ------------------------------------------------------------------------
\* The input pipeline (axlearn.common.input_grain).
\* ------------------------------------------------------------------------
\* The k-th example of a dataset, and the example pad_example_fn returns.
Example(k) == [pad |-> FALSE, k |-> k]

PadExample == [pad |-> TRUE, k |-> 0]

Yield(element) == [kind |-> "element", element |-> element]

StopIteration == [kind |-> "StopIteration", element |-> PadExample]

\* Faulty variant: a parent that has run out ends the iteration.
FixedLengthNextNoPadding(it) ==
    IF it.i >= it.length \/ it.parent_pos >= it.parent_len
    THEN [it |-> it, out |-> StopIteration]
    ELSE [it |-> [it EXCEPT !.parent_pos = @ + 1, !.i = @ + 1],
          out |-> Yield(Example(it.parent_pos))]

\* _FixedLengthDatasetIterator.__next__: the iterator after the call and
\* what the call yields.
FixedLengthNext(it) ==
    IF it.i >= it.length THEN [it |-> it, out |-> StopIteration]
    ELSE IF it.parent_pos < it.parent_len
         THEN [it |-> [it EXCEPT !.parent_pos = @ + 1, !.i = @ + 1],
               out |-> Yield(Example(it.parent_pos))]
         ELSE [it |-> [it EXCEPT !.i = @ + 1], out |-> Yield(PadExample)]

\* The elements an iterator yields until it raises StopIteration.
RECURSIVE Drain(_)
Drain(it) ==
    LET step == FixedLengthNext(it)
    IN  IF step.out.kind = "StopIteration" THEN << >>
        ELSE << step.out.element >> \o Drain(step.it)

\* The elements of a dataset, in iteration order.
Elements(ds) ==
    IF ds.length > 0 THEN Drain(FixedLengthIterator(ds.n, 0, ds.length, 0))
    ELSE [k \in 1..ds.n |-> Example(k - 1)]

\* The manual count of a dataset without known cardinality: raised, or the
\* number of examples.  `num_examples` is the count so far.
RECURSIVE CountExamples(_, _, _)
CountExamples(ds, max_num_examples, num_examples) ==
    IF num_examples = ds.n /\ ds.n < SysMaxSize
    THEN [raised |-> FALSE, num_examples |-> num_examples]
    ELSE IF num_examples + 1 >= max_num_examples
         THEN [raised |-> TRUE, num_examples |-> num_examples + 1]
         ELSE CountExamples(ds, max_num_examples, num_examples + 1)

\* len(ds), or the manual count when len(ds) raises TypeError.
NumExamples(ds, max_num_examples) ==
    IF ds.known THEN [raised |-> FALSE, num_examples |-> ds.n]
    ELSE CountExamples(ds, max_num_examples, 0)

\* Faulty variant: a full feed batch is added even to a multiple.
TargetNumExamplesAlwaysPads(num_examples, per_feed_batch_size) ==
    num_examples + per_feed_batch_size - (num_examples % per_feed_batch_size)

\* target_num_examples before the exchange between processes.
TargetNumExamples(num_examples, per_feed_batch_size) ==
    IF num_examples % per_feed_batch_size # 0
    THEN num_examples + per_feed_batch_size - (num_examples % per_feed_batch_size)
    ELSE num_examples

\* jnp.max over the targets gathered from all processes; peer_target is the
\* largest target of the other processes.
AllGatherMax(target_num_examples, peer_target) ==
    IF peer_target > target_num_examples THEN peer_target ELSE target_num_examples

PadRaise(p, error) == [p EXCEPT !.kind = "raise", !.error = error]

PadReturn(p, ds) == [p EXCEPT !.kind = "return", !.result = ds]

\* pad_for_evaluation on the arguments held in p.
pad_for_evaluation(p) ==
    LET counted == NumExamples(p.ds, p.max_num_examples)
        num_examples == counted.num_examples
        own == TargetNumExamples(num_examples, p.per_feed_batch_size)
        target_num_examples ==
            IF p.process_count > 1 THEN AllGatherMax(own, p.peer_target) ELSE own
    IN  IF counted.raised THEN PadRaise(p, "ValueError: giving up on counting")
        ELSE IF num_examples >= SysMaxSize
             THEN PadRaise(p, "ValueError: infinite cardinality")
        ELSE IF num_examples <= 0 THEN PadRaise(p, "ValueError: empty")
        ELSE IF num_examples < target_num_examples
             THEN PadReturn(p, Dataset(TRUE, p.ds.n, target_num_examples))
        ELSE PadReturn(p, p.ds)

\* sys.maxsize stands for the cardinality of a repeated dataset; no bound on
\* a manual count comes near it.
PadForEvaluation ==
    /\ GrainIdle
    /\ \E known \in BOOLEAN, n \in 0..SysMaxSize,
          per_feed_batch_size \in 1..MaxFeedBatch,
          max_num_examples \in 1..(SysMaxSize - 1) :
          LET args == [NotPadded EXCEPT
                          !.applied = TRUE,
                          !.ds = Dataset(known, n, 0),
                          !.per_feed_batch_size = per_feed_batch_size,
                          !.max_num_examples = max_num_examples]
          IN  \/ padded' = pad_for_evaluation([args EXCEPT !.process_count = 1])
              \/ \E peer_target \in 1..SysMaxSize :
                    padded' = pad_for_evaluation(
                                 [args EXCEPT !.process_count = 2,
                                              !.peer_target = peer_target])
    /\ UNCHANGED << dispatchVars, functionVars, calls, fixed, shard, pipeline, unbatch >>

\* iter(ds) on a _FixedLengthIterDataset of the given length.
FixedIter ==
    /\ GrainIdle
    /\ \E parent_len \in 0..MaxFixedLength, length \in 0..MaxFixedLength :
          fixed' = [NotIterating EXCEPT
                       !.active = TRUE,
                       !.it = FixedLengthIterator(parent_len, 0, length, 0)]
    /\ UNCHANGED << dispatchVars, functionVars, calls, padded, shard, pipeline, unbatch >>

\* next(it); the calls after exhaustion are counted up to MaxStops.
FixedNext ==
    /\ fixed.active
    /\ fixed.stops < MaxStops
    /\ LET step == FixedLengthNext(fixed.it)
       IN  fixed' = [fixed EXCEPT
                        !.it = step.it,
                        !.yielded = IF step.out.kind = "element"
                                    THEN Append(@, step.out.element) ELSE @,
                        !.stops = IF step.out.kind = "StopIteration"
                                  THEN @ + 1 ELSE @]
    /\ UNCHANGED << dispatchVars, functionVars, calls, padded, shard, pipeline, unbatch >>

\* ------------------------------------------------------------------------
\* shard_dataset and _ShardDataset.
\* ------------------------------------------------------------------------
\* Number of examples of the slice parent[start::step].
SliceLen(sd) ==
    IF sd.start >= sd.parent_len THEN 0
    ELSE (sd.parent_len - sd.start + sd.step - 1) \div sd.step

\* The examples the slice parent[start::step] reads, in order.
SliceElements(sd) ==
    [k \in 1..SliceLen(sd) |-> Example(sd.start + (k - 1) * sd.step)]

\* Faulty variant: process_index = process_count is let through.
shard_dataset_inclusive(parent_len, process_count, process_index) ==
    IF ~(0 <= process_index /\ process_index <= process_count)
    THEN [error |-> "ValueError", sd |-> ShardDataset(0, 0, 1, FALSE)]
    ELSE [error |-> "",
          sd |-> ShardDataset(parent_len, process_index, process_count, FALSE)]

\* shard_dataset(ds, process_count=..., process_index=...)
shard_dataset(parent_len, process_count, process_index) ==
    IF ~(0 <= process_index /\ process_index < process_count)
    THEN [error |-> "ValueError", sd |-> ShardDataset(0, 0, 1, FALSE)]
    ELSE [error |-> "",
          sd |-> ShardDataset(parent_len, process_index, process_count, FALSE)]

\* Faulty variant: the read config is set even after iterating.
set_read_config_unguarded(sd, num_shards, shard_index) ==
    [error |-> "", sd |-> [sd EXCEPT !.start = shard_index, !.step = num_shards]]

\* _ShardDataset.set_read_config
set_read_config(sd, num_shards, shard_index) ==
    IF sd.iterated THEN [error |-> "ValueError", sd |-> sd]
    ELSE [error |-> "",
          sd |-> [sd EXCEPT !.start = shard_index, !.step = num_shards]]

\* _ShardDataset.__getitem__: the flag is set, then the slice is indexed.
\* No item is given where the parent has no example.
getitem(sd, index) ==
    LET at == sd.start + index * sd.step
    IN  [sd |-> [sd EXCEPT !.iterated = TRUE],
         item |-> IF at < sd.parent_len THEN Some(Example(at)) ELSE None]

OnlyShard ==
    UNCHANGED << dispatchVars, functionVars, calls, padded, fixed, pipeline, unbatch >>

ShardTheDataset ==
    /\ GrainIdle
    /\ \E parent_len \in 0..MaxDatasetLen, process_count \in 0..MaxProcesses,
          process_index \in (-1)..MaxProcesses :
          LET made == shard_dataset(parent_len, process_count, process_index)
          IN  shard' = [active |-> TRUE, sd |-> made.sd,
                        last |-> [NoShardOp EXCEPT
                                     !.op = "shard_dataset",
                                     !.error = made.error,
                                     !.process_count = process_count,
                                     !.process_index = process_index]]
    /\ OnlyShard

SetReadConfig ==
    /\ shard.active
    /\ shard.last.op # "shard_dataset" \/ shard.last.error = ""
    /\ \E num_shards \in 1..MaxProcesses, shard_index \in 0..(MaxProcesses - 1) :
          LET set == set_read_config(shard.sd, num_shards, shard_index)
          IN  shard' = [shard EXCEPT
                           !.sd = set.sd,
                           !.last = [NoShardOp EXCEPT
                                        !.op = "set_read_config",
                                        !.error = set.error,
                                        !.num_shards = num_shards,
                                        !.shard_index = shard_index]]
    /\ OnlyShard

GetItem ==
    /\ shard.active
    /\ shard.last.op # "shard_dataset" \/ shard.last.error = ""
    /\ \E index \in 0..(MaxProcesses - 1) :
          LET got == getitem(shard.sd, index)
          IN  shard' = [shard EXCEPT
                           !.sd = got.sd,
                           !.last = [NoShardOp EXCEPT
                                        !.op = "getitem",
                                        !.index = index,
                                        !.item = got.item]]
    /\ OnlyShard

\* ------------------------------------------------------------------------
\* Input.dataset and _set_read_config_recursively.
\* ------------------------------------------------------------------------
\* A transformation with one parent (map, batch, ...).
MapDataset(parent) == Node("map", << parent >>, 0, 1)

\* sample_from_datasets over two sources.
MixDataset(a, b) == Node("mix", << a, b >>, 0, 1)

\* shard_dataset as the source builds it: the read config of one process.
ShardNode(parent) == Node("shard", << parent >>, 0, 1)

\* The sequence of one-parent transformations of a pipeline, outermost first.
Chains == UNION {[1..n -> {"map", "shard"}] : n \in 0..MaxChain}

RECURSIVE ApplyChain(_, _, _)
ApplyChain(chain, i, base) ==
    IF i > Len(chain) THEN base
    ELSE IF chain[i] = "shard" THEN ShardNode(ApplyChain(chain, i + 1, base))
    ELSE MapDataset(ApplyChain(chain, i + 1, base))

\* The datasets a source may build: transformations of a single source, or
\* of a mixture of two transformed sources.
Pipelines ==
    {ApplyChain(c, 1, SourceDataset) : c \in Chains}
    \cup {ApplyChain(c, 1, MixDataset(ApplyChain(a, 1, SourceDataset),
                                      ApplyChain(b, 1, SourceDataset))) :
            c \in Chains, a \in Chains, b \in Chains}

\* _set_read_config_recursively: whether a _ShardDataset was found, and the
\* dataset graph after the call.  The datasets are freshly built, so
\* set_read_config does not raise.
RECURSIVE _set_read_config_recursively(_, _, _)
RECURSIVE SetInParents(_, _, _, _)
_set_read_config_recursively(source, num_shards, shard_index) ==
    IF source.kind = "shard"
    THEN [found |-> TRUE,
          source |-> [source EXCEPT !.start = shard_index, !.step = num_shards]]
    ELSE LET r == SetInParents(source.parents, 1, num_shards, shard_index)
         IN  [found |-> r.found, source |-> [source EXCEPT !.parents = r.parents]]

\* for parent in source.parents: the loop from parent i on.
SetInParents(parents, i, num_shards, shard_index) ==
    IF i > Len(parents) THEN [found |-> FALSE, parents |-> parents]
    ELSE LET r == _set_read_config_recursively(parents[i], num_shards, shard_index)
         IN  IF r.found
             THEN [found |-> TRUE, parents |-> [parents EXCEPT ![i] = r.source]]
             ELSE SetInParents(parents, i + 1, num_shards, shard_index)

\* Input.dataset on the arguments held in p.
InputDataset(p) ==
    IF ~p.dispatcher THEN [p EXCEPT !.ds = p.source]
    ELSE LET r == _set_read_config_recursively(p.source, p.num_shards, p.shard_index)
         IN  IF ~r.found
             THEN [p EXCEPT !.ds = r.source, !.error = "ValueError"]
             ELSE [p EXCEPT !.ds = r.source, !.found = TRUE]

\* dataset() of an Input whose source builds any of the pipelines, without
\* or with an input dispatcher whose feed_read_config differs from the read
\* config the source used.
BuildDataset ==
    /\ GrainIdle
    /\ \E source \in Pipelines :
          LET args == [NotBuilt EXCEPT !.applied = TRUE, !.source = source]
          IN  \/ pipeline' = InputDataset(args)
              \/ \E num_shards \in 2..MaxProcesses :
                    \E shard_index \in 1..(num_shards - 1) :
                        pipeline' = InputDataset([args EXCEPT
                                                     !.dispatcher = TRUE,
                                                     !.num_shards = num_shards,
                                                     !.shard_index = shard_index])
    /\ UNCHANGED << dispatchVars, functionVars, calls, padded, fixed, shard, unbatch >>

\* ------------------------------------------------------------------------
\* _UnbatchDatasetIterator.
\* ------------------------------------------------------------------------
\* A batch of the parent: whether the example has leaves, whether their
\* batch dims differ, and the batch dim (rows) the leaves share.
Batch(leaves, ragged, rows) == [leaves |-> leaves, ragged |-> ragged, rows |-> rows]

Batches ==
    {Batch(FALSE, FALSE, 0), Batch(TRUE, TRUE, 0)}
    \cup {Batch(TRUE, FALSE, rows) : rows \in 0..MaxRows}

Streams == UNION {[1..n -> Batches] : n \in 0..MaxStream}

\* Lines 209-221 of __next__: the row at _index of the current batch.
UnbatchYield(stream, it) ==
    LET batch_size == stream[it.current_batch[1]].rows
        index == it.index + 1
    IN  IF ~(0 <= it.index /\ it.index < batch_size)
        THEN [it |-> it, out |-> Raises("AssertionError")]
        ELSE [it |-> IF index >= batch_size
                     THEN [it EXCEPT !.index = 0, !.current_batch = None,
                                     !.parent_state = it.parent]
                     ELSE [it EXCEPT !.index = index],
              out |-> Outcome("element", it.current_batch[1], it.index)]

\* _UnbatchDatasetIterator.__next__: the iterator after the call and what
\* the call gives.
RECURSIVE UnbatchNext(_, _)
UnbatchNext(stream, it) ==
    IF it.current_batch # None THEN UnbatchYield(stream, it)
    ELSE IF it.parent >= Len(stream)
         THEN [it |-> it, out |-> Raises("StopIteration")]
    ELSE LET example == stream[it.parent + 1]
             advanced == [it EXCEPT !.parent = @ + 1]
         IN  IF ~example.leaves THEN UnbatchNext(stream, advanced)
             ELSE IF example.ragged
                  THEN [it |-> advanced, out |-> Raises("ValueError")]
             ELSE UnbatchYield(stream,
                               [advanced EXCEPT !.current_batch = Some(it.parent + 1)])

\* Faulty variant: the state of the parent as it is now is saved.
get_state_of_parent_now(it) == [parent |-> it.parent, index |-> it.index]

\* _UnbatchDatasetIterator.get_state
get_state(it) == [parent |-> it.parent_state, index |-> it.index]

\* _UnbatchDatasetIterator.set_state
set_state(it, state) ==
    [it EXCEPT !.parent = state.parent, !.parent_state = state.parent,
               !.index = state.index, !.current_batch = None]

OnlyUnbatch ==
    UNCHANGED << dispatchVars, functionVars, calls, padded, fixed, shard, pipeline >>

\* iter(ds) on an _UnbatchIterDataset over a parent yielding the stream.
UnbatchIter ==
    /\ GrainIdle
    /\ \E stream \in Streams :
          unbatch' = [NotUnbatching EXCEPT !.active = TRUE, !.stream = stream]
    /\ OnlyUnbatch

UnbatchNextCall ==
    /\ unbatch.active
    /\ LET step == UnbatchNext(unbatch.stream, unbatch.it)
       IN  unbatch' = [unbatch EXCEPT !.it = step.it, !.last = step.out,
                                      !.restored = (unbatch.last.kind = "set_state")]
    /\ OnlyUnbatch

UnbatchGetState ==
    /\ unbatch.active
    /\ unbatch' = [unbatch EXCEPT !.saved = Some(get_state(unbatch.it))]
    /\ OnlyUnbatch

\* set_state with a state that get_state returned on the same parent data.
UnbatchSetState ==
    /\ unbatch.active
    /\ unbatch.saved # None
    /\ unbatch' = [unbatch EXCEPT !.it = set_state(unbatch.it, unbatch.saved[1]),
                                  !.last = Raises("set_state")]
    /\ OnlyUnbatch

\* The result or the iterator is dropped.
GrainRelease ==
    /\ ~GrainIdle
    /\ padded' = NotPadded
    /\ fixed' = NotIterating
    /\ shard' = NotSharded
    /\ pipeline' = NotBuilt
    /\ unbatch' = NotUnbatching
    /\ UNCHANGED << dispatchVars, functionVars, calls >>

GrainInit ==
    /\ backend = "xla"
    /\ block_size = MaxBlock
    /\ pc = "idle"
    /\ query = NoTensor
    /\ key = NoTensor
    /\ val = NoTensor
    /\ bias = ZeroAttentionBias
    /\ outcome = NoOutcome
    /\ repeated = NotRepeated
    /\ reference = NotReferenced
    /\ calls = NoCalls
    /\ GrainIdle

GrainNext ==
    \/ PadForEvaluation
    \/ FixedIter
    \/ FixedNext
    \/ ShardTheDataset
    \/ SetReadConfig
    \/ GetItem
    \/ BuildDataset
    \/ UnbatchIter
    \/ UnbatchNextCall
    \/ UnbatchGetState
    \/ UnbatchSetState
    \/ GrainRelease

GrainSpec == GrainInit /\ [][GrainNext]_vars

TypeOK ==
    /\ backend \in Backends
    /\ block_size \in BlockSizes
    /\ pc \in {"idle", "done"}
    /\ outcome.kind \in {"none", "call", "raise"}
    /\ pc = "idle" <=> outcome.kind = "none"

\* ------------------------------------------------------------------------
\* Vocabulary of the properties, stated over the caller's arguments.
\* ------------------------------------------------------------------------
Done == pc = "done"

Called(fn) == outcome.kind = "call" /\ outcome.fn = fn

Raised(error) == outcome.kind = "raise" /\ outcome.error = error

\* The leaves of the caller's bias.
BiasLeaves == Leaves(bias)

HasLeaf(kind) == \E i \in 1..Len(BiasLeaves) : BiasLeaves[i].kind = kind

\* Dense value of the leaves of the caller's bias that are of none of `kinds`.
RemainderValue(kinds) ==
    LET rest == SelectSeq(BiasLeaves, LAMBDA l : l.kind \notin kinds)
    IN  SumValues([i \in 1..Len(rest) |-> value(rest[i])], 1)

\* The call is a single-token decode step on the GPU backend.
IsGpuDecode == query.len = 1 /\ backend = "gpu"

\* get_segment_ids rejects the call: a SegmentId component whose batch dim
\* differs from the query's, or with target length # source length.
SegmentIdsRejected ==
    \E i \in 1..Len(BiasLeaves) :
        /\ BiasLeaves[i].kind = "SegmentId"
        /\ \/ query.len # key.len
           \/ BiasLeaves[i].batch # query.batch

\* The set of masking/bias terms a dense value is the sum of.
TermsOf(v) == IF v = None THEN {} ELSE BagToSet(v[1])

\* ------------------------------------------------------------------------
\* C1: unless the call is a single-token decode step on the GPU backend, a
\* target length that is not a multiple of block_size resolves the backend
\* to xla whatever backend was configured, and the only compute path the
\* call can invoke is mha_reference (the call ends there, or in the
\* ValueError of get_segment_ids raised while its arguments are built).
\* ------------------------------------------------------------------------
C1_Precondition ==
    Done /\ ~IsGpuDecode /\ query.len % block_size # 0

C1_DivisibilityFallback ==
    C1_Precondition =>
        /\ outcome.backend = "xla"
        /\ outcome.kind = "call" => outcome.fn = "mha_reference"
        /\ ~SegmentIdsRejected => Called("mha_reference")
        /\ outcome.kind = "raise" => outcome.error = "ValueError"

C1_Witness ==
    /\ C1_Precondition
    /\ backend = "gpu"
    /\ query.len > 1
    /\ Called("mha_reference")
    /\ outcome.backend = "xla"

\* ------------------------------------------------------------------------
\* C2: a capability-mismatch fallback applies to the call.  On the GPU
\* general path this means the kernel choice is reached (target length ==
\* source length) and takes the slower kernel.
\* ------------------------------------------------------------------------
GpuKernelChoiceReached ==
    /\ backend = "gpu"
    /\ query.len > 1
    /\ query.len % block_size = 0
    /\ query.len = key.len

FallbackApplies ==
    /\ Done
    /\ \/ ~IsGpuDecode /\ query.len % block_size # 0
       \/ query.len = 1 /\ backend # "gpu"
       \/ /\ GpuKernelChoiceReached
          /\ \/ HasLeaf("SegmentId")
             \/ RemainderValue({"Causal", "SegmentId"}) # None
             \/ "float32" \in {query.dtype, key.dtype, val.dtype}

\* C2 as claimed: whenever a capability-mismatch fallback applies, the call
\* ends by invoking a compute path, never in a raised error.
C2_FallbackNeverRaises ==
    FallbackApplies => outcome.kind = "call"

\* C2 as amended: whenever a capability-mismatch fallback applies, the call
\* ends by invoking a compute path, except that with target length > 1 and a
\* SegmentId component whose batch dim differs from the query's, or with
\* target length # source length, it ends in the ValueError of
\* get_segment_ids; a single-token call on a non-GPU backend never raises.
C2_FallbackRaisesOnlyOnSegmentIds ==
    FallbackApplies =>
        /\ outcome.kind \in {"call", "raise"}
        /\ outcome.kind = "raise" <=> (query.len > 1 /\ SegmentIdsRejected)
        /\ outcome.kind = "raise" => outcome.error = "ValueError"

C2_Witness ==
    /\ FallbackApplies
    /\ query.len > 1
    /\ query.len % block_size # 0
    /\ HasLeaf("SegmentId")
    /\ Called("mha_reference")
    /\ outcome.segment_ids # None

\* ------------------------------------------------------------------------
\* C3 as claimed: a configured backend outside cpu, gpu, tpu, xla ends every
\* call in NotImplementedError, with no compute path invoked, for every
\* target length and block_size.
\* ------------------------------------------------------------------------
C3_UnknownBackendAlwaysRaises ==
    (Done /\ backend \notin KnownBackends) => Raised("NotImplementedError")

\* ------------------------------------------------------------------------
\* C4: a single-token call on a backend other than gpu resolves to xla and
\* invokes mha_reference with causal = false, no segment ids, and the dense
\* value of the whole bias as its bias argument.
\* ------------------------------------------------------------------------
C4_Precondition ==
    Done /\ query.len = 1 /\ backend # "gpu"

C4_SingleTokenCollapse ==
    C4_Precondition =>
        /\ outcome.backend = "xla"
        /\ Called("mha_reference")
        /\ outcome.causal = FALSE
        /\ outcome.segment_ids = None
        /\ outcome.bias = RemainderValue({})

C4_Witness ==
    /\ C4_Precondition
    /\ backend = "tpu"
    /\ HasLeaf("Causal")
    /\ HasLeaf("SegmentId")
    /\ HasLeaf("MaskFn")
    /\ Called("mha_reference")
    /\ outcome.bias # None
    /\ Cardinality(TermsOf(outcome.bias)) >= 3

\* ------------------------------------------------------------------------
\* C5: on the GPU decode path, a bias with no MaskFn leaf, or whose MaskFn
\* leaf has no target_positions, ends the call in RuntimeError and the
\* decode kernel is not invoked.
\* ------------------------------------------------------------------------
HasTargetPositions ==
    \E i \in 1..Len(BiasLeaves) :
        BiasLeaves[i].kind = "MaskFn" /\ BiasLeaves[i].target_positions # None

C5_Precondition ==
    Done /\ IsGpuDecode /\ ~HasTargetPositions

C5_DecodeRequiresTargetPositions ==
    C5_Precondition => (Raised("RuntimeError") /\ ~Called("flash_decoding"))

C5_Witness ==
    /\ C5_Precondition
    /\ HasLeaf("MaskFn")
    /\ HasLeaf("Causal")
    /\ Raised("RuntimeError")

\* ------------------------------------------------------------------------
\* C6: on the GPU decode path with a MaskFn leaf carrying target_positions
\* p, the decode kernel is invoked with kv_seq_len = p + 1 for every batch
\* row: source positions 0..p are visible and position p + 1 is not.
\* ------------------------------------------------------------------------
\* Source positions of a key/value cache long enough for every offset.
SourcePositions == 0..(MaxPos + 1)

\* The source positions the decode kernel reads for a row of kv_seq_len.
DecodeVisible(kv_len) == {s \in SourcePositions : s < kv_len}

\* The target_positions of the MaskFn leaf of the caller's bias.
BiasTargetPositions ==
    SelectSeq(BiasLeaves, LAMBDA l : l.kind = "MaskFn")[1].target_positions[1]

C6_Precondition ==
    Done /\ IsGpuDecode /\ HasTargetPositions

C6_DecodeLength ==
    C6_Precondition =>
        /\ Called("flash_decoding")
        /\ outcome.kv_seq_len # None
        /\ LET p == BiasTargetPositions
               kv == outcome.kv_seq_len[1]
           IN  /\ Len(kv) = Len(p)
               /\ \A i \in 1..Len(p) :
                    /\ kv[i] = p[i] + 1
                    /\ DecodeVisible(kv[i]) = 0..p[i]
                    /\ (p[i] + 1) \notin DecodeVisible(kv[i])

C6_Witness ==
    /\ C6_Precondition
    /\ Called("flash_decoding")
    /\ BiasTargetPositions = << 0, MaxPos >>
    /\ outcome.kv_seq_len = Some(<< 1, MaxPos + 1 >>)

C7_Precondition ==
    /\ Done
    /\ backend = "gpu"
    /\ query.len > 1
    /\ query.len % block_size = 0
    /\ query.len # key.len

C8_SlowKernelNeeded ==
    \/ HasLeaf("SegmentId")
    \/ RemainderValue({"Causal", "SegmentId"}) # None
    \/ "float32" \in {query.dtype, key.dtype, val.dtype}

\* gpu_flash_attention is the kernel chosen: it is invoked, or the call ends
\* in the ValueError of get_segment_ids raised while its arguments are built.
C8_SlowKernelChosen ==
    \/ Called("gpu_flash_attention")
    \/ Raised("ValueError") /\ SegmentIdsRejected

C8_KernelChoice ==
    (Done /\ GpuKernelChoiceReached) =>
        /\ C8_SlowKernelNeeded <=> C8_SlowKernelChosen
        /\ ~C8_SlowKernelNeeded =>
              /\ Called("cudnn_dot_product_attention")
              /\ outcome.bias = None
              /\ outcome.segment_ids = None
              /\ outcome.causal = HasLeaf("Causal")
        /\ Called("gpu_flash_attention") =>
              /\ outcome.bias = RemainderValue({"Causal", "SegmentId"})
              /\ outcome.causal = HasLeaf("Causal")

C8_Witness ==
    /\ Done
    /\ GpuKernelChoiceReached
    /\ ~HasLeaf("SegmentId")
    /\ RemainderValue({"Causal", "SegmentId"}) = None
    /\ query.dtype = "bfloat16"
    /\ key.dtype = "bfloat16"
    /\ val.dtype = "float32"
    /\ Called("gpu_flash_attention")

\* ------------------------------------------------------------------------
\* C9: with backend gpu, a target length > 1 that is a multiple of
\* block_size and equals the source length, and a bias made of Causal
\* components only, the backend stays gpu: a GPU kernel is invoked with
\* causal = true and mha_reference is not invoked.
\* ------------------------------------------------------------------------
OnlyCausal ==
    /\ Len(BiasLeaves) >= 1
    /\ \A i \in 1..Len(BiasLeaves) : BiasLeaves[i].kind = "Causal"

C9_Precondition ==
    Done /\ GpuKernelChoiceReached /\ OnlyCausal

C9_NoDowngrade ==
    C9_Precondition =>
        /\ outcome.backend = "gpu"
        /\ outcome.kind = "call"
        /\ outcome.fn \in {"cudnn_dot_product_attention", "gpu_flash_attention"}
        /\ outcome.causal = TRUE
        /\ ~Called("mha_reference")

C9_Witness ==
    /\ C9_Precondition
    /\ Called("cudnn_dot_product_attention")
    /\ outcome.causal = TRUE

\* ------------------------------------------------------------------------
\* C10: on the cpu / xla path with target length > 1, mha_reference is
\* invoked with causal = true iff the flattened bias has a Causal leaf, with
\* the segment ids of its SegmentId leaf iff it has one, and with the dense
\* value of exactly the other leaves as bias; the three arguments carry the
\* same masking terms as the caller's bias.
\* ------------------------------------------------------------------------
OnReferencePath ==
    /\ Done
    /\ query.len > 1
    /\ \/ backend \in {"cpu", "xla"}
       \/ query.len % block_size # 0

\* The masking terms mha_reference applies for its three arguments.
ReferenceMasking ==
    (IF outcome.causal THEN {Term("causal", 0, None)} ELSE {})
    \cup {outcome.segment_ids[i] : i \in 1..Len(outcome.segment_ids)}
    \cup TermsOf(outcome.bias)

C10_ReferenceArguments ==
    (OnReferencePath /\ ~SegmentIdsRejected) =>
        /\ Called("mha_reference")
        /\ outcome.causal = HasLeaf("Causal")
        /\ (outcome.segment_ids # None) = HasLeaf("SegmentId")
        /\ \A i \in 1..Len(BiasLeaves) :
              BiasLeaves[i].kind = "SegmentId" =>
                  outcome.segment_ids = Some(Term("segment", BiasLeaves[i].batch, None))
        /\ outcome.bias = RemainderValue({"Causal", "SegmentId"})
        /\ ReferenceMasking = TermsOf(RemainderValue({}))

C10_Witness ==
    /\ OnReferencePath
    /\ backend = "cpu"
    /\ HasLeaf("Causal")
    /\ HasLeaf("SegmentId")
    /\ HasLeaf("MaskFn")
    /\ HasLeaf("Tensor")
    /\ Called("mha_reference")
    /\ outcome.causal
    /\ outcome.segment_ids # None
    /\ outcome.bias # None

\* ------------------------------------------------------------------------
\* C11: split over the (wrapped) bias of a call returns one output per
\* requested variant, holding exactly the leaves of that variant in their
\* original order and multiplicity, then a Composite of every other leaf;
\* the dense values of the outputs sum to the dense value of the bias and
\* no leaf is lost or duplicated.
\* ------------------------------------------------------------------------
\* The variant list the dispatcher requests from split on the path of the
\* call: MaskFn for GPU decoding, MaskFn and SegmentId on tpu, Causal and
\* SegmentId on the gpu general path and on cpu/xla.
RequestedClasses ==
    LET resolved == ResolveBackend(query, backend, block_size)
    IN  IF resolved = "gpu" /\ query.len = 1 THEN << "MaskFn" >>
        ELSE IF resolved = "tpu" THEN << "MaskFn", "SegmentId" >>
        ELSE << "Causal", "SegmentId" >>

\* The leaves a matched output is built from; the Zero sentinel has none.
MatchedLeaves(out) == IF out.kind = "Zero" THEN << >> ELSE Leaves(out)

RECURSIVE SumLens(_, _)
SumLens(seqs, i) ==
    IF i > Len(seqs) THEN 0 ELSE Len(seqs[i]) + SumLens(seqs, i + 1)

\* Checked on the split of the call: of the bias after the single-token
\* collapse and the Composite wrapping, for the variant list of its path.
C11_SplitSoundFor(classes) ==
    LET resolved == ResolveBias(query, backend, bias)
        leaves == Leaves(resolved)
        parts == split(resolved, classes)
        n == Len(classes)
        asked == {classes[i] : i \in 1..n}
        residual == Leaves(parts[n + 1])
    IN  /\ Len(parts) = n + 1
        /\ \A i \in 1..n :
              MatchedLeaves(parts[i])
                  = SelectSeq(leaves, LAMBDA l : l.kind = classes[i])
        /\ parts[n + 1].kind = "Composite"
        /\ residual = SelectSeq(leaves, LAMBDA l : l.kind \notin asked)
        /\ SumValues([i \in 1..(n + 1) |-> value(parts[i])], 1) = value(bias)
        /\ SumLens([i \in 1..n |-> MatchedLeaves(parts[i])], 1) + Len(residual)
              = Len(leaves)

C11_SplitSound == Done => C11_SplitSoundFor(RequestedClasses)

C11_Witness ==
    /\ Done
    /\ HasLeaf("Causal")
    /\ HasLeaf("SegmentId")
    /\ HasLeaf("MaskFn")
    /\ HasLeaf("Tensor")
    /\ Called("tpu_flash_attention")
    /\ outcome.mask # None
    /\ outcome.segment_ids # None
    /\ Cardinality(TermsOf(outcome.bias)) = 2

\* ------------------------------------------------------------------------
\* C12 as claimed: a SegmentId component whose batch dim differs from the
\* query's ends the call in an error before any compute path is invoked, on
\* every path.
\* ------------------------------------------------------------------------
SegmentBatchMismatch ==
    \E i \in 1..Len(BiasLeaves) :
        BiasLeaves[i].kind = "SegmentId" /\ BiasLeaves[i].batch # query.batch

C12_BatchMismatchAlwaysRaises ==
    (Done /\ SegmentBatchMismatch) => outcome.kind = "raise"

\* C12 as amended: with target length > 1, a SegmentId component whose batch
\* dim differs from the query's ends the call in an error before any compute
\* path is invoked: NotImplementedError when the resolved backend is unknown
\* or is gpu with target length # source length, the ValueError of
\* get_segment_ids otherwise.  Single-token calls make no such check.
C12_Precondition ==
    Done /\ query.len > 1 /\ SegmentBatchMismatch

C12_BatchMismatchRaisesBeyondOneToken ==
    C12_Precondition =>
        /\ outcome.kind = "raise"
        /\ LET divisible == query.len % block_size = 0
               notImplemented ==
                   /\ divisible
                   /\ \/ backend \notin KnownBackends
                      \/ backend = "gpu" /\ query.len # key.len
           IN  outcome.error =
                   IF notImplemented THEN "NotImplementedError" ELSE "ValueError"

C12_Witness ==
    /\ C12_Precondition
    /\ query.len = key.len
    /\ outcome.backend = "xla"
    /\ Raised("ValueError")

\* ------------------------------------------------------------------------
\* C13 as claimed: on every path that repeats key/value heads, a query head
\* count that is no multiple of the key/value head count ends the call in an
\* error; no compute path is invoked with mismatched head counts.
\* ------------------------------------------------------------------------
C13_HeadMismatchRaises ==
    (Done /\ ~IsGpuDecode /\ query.heads % key.heads # 0) =>
        /\ outcome.kind = "raise"
        /\ ~(outcome.kind = "call" /\ outcome.key.heads # query.heads)

\* ------------------------------------------------------------------------
\* C14: _repeat_kv_heads with query heads = r * kv heads returns r * kv
\* heads in which head j is input head j div r, so that every r-th head
\* recovers the input; with r = 1 the input is returned unchanged.
\* ------------------------------------------------------------------------
C14_Precondition ==
    /\ repeated.num_q_heads > 0
    /\ repeated.num_q_heads % Len(repeated.heads) = 0

C14_RepeatRoundTrip ==
    C14_Precondition =>
        LET kv == Len(repeated.heads)
            r == repeated.num_q_heads \div kv
            out == repeated.result
        IN  /\ Len(out) = r * kv
            /\ Len(out) = repeated.num_q_heads
            /\ \A j \in 0..(Len(out) - 1) :
                  out[j + 1] = repeated.heads[(j \div r) + 1]
            /\ [i \in 1..kv |-> out[(i - 1) * r + 1]] = repeated.heads
            /\ r = 1 => out = repeated.heads

C14_Witness ==
    /\ C14_Precondition
    /\ repeated.num_q_heads = 4
    /\ repeated.heads = << 1, 2 >>
    /\ repeated.result = << 1, 1, 2, 2 >>

\* ------------------------------------------------------------------------
\* C16: in mha_reference with causal = true the pair (t, s) is excluded iff
\* t < s, so row t sees exactly the columns 0..t; in the 4x4 case (0,0) and
\* (3,3) are visible and (0,1) and (1,3) are excluded.  With segment ids
\* supplied as well, the causal step still excludes every pair with t < s.
\* ------------------------------------------------------------------------
Excluded(b, t, s) == << b, t, s >> \in reference.excluded

BatchRows == 0..(reference.batch - 1)
TargetRows == 0..(reference.tlen - 1)
SourceColumns == 0..(reference.slen - 1)

C16_Precondition == reference.applied /\ reference.causal

C16_CausalMask ==
    C16_Precondition =>
        /\ \A b \in BatchRows, t \in TargetRows, s \in SourceColumns :
              /\ t < s => Excluded(b, t, s)
              /\ reference.segment_ids = None => (Excluded(b, t, s) <=> t < s)
        /\ reference.segment_ids = None =>
              \A b \in BatchRows, t \in TargetRows :
                  {s \in SourceColumns : ~Excluded(b, t, s)}
                      = {s \in SourceColumns : s <= t}
        /\ (reference.segment_ids = None /\ reference.tlen = 4 /\ reference.slen = 4) =>
              \A b \in BatchRows :
                  /\ ~Excluded(b, 0, 0)
                  /\ ~Excluded(b, 3, 3)
                  /\ Excluded(b, 0, 1)
                  /\ Excluded(b, 1, 3)

C16_Witness ==
    /\ C16_Precondition
    /\ reference.segment_ids = None
    /\ reference.tlen = 4
    /\ reference.slen = 4
    /\ Excluded(0, 1, 3)
    /\ ~Excluded(0, 3, 3)

\* ------------------------------------------------------------------------
\* C17: in mha_reference with segment ids supplied, positions i and j of
\* batch row b are visible to each other iff segment[b,i] = segment[b,j],
\* and the relation is symmetric; with segment ids [0,0,1,1], (0,1) and
\* (2,3) are mutually visible and (1,2) mutually excluded.  With causal set
\* as well, a visible pair still has equal segment ids.
\* ------------------------------------------------------------------------
SegmentOf(b, i) == reference.segment_ids[1][b + 1][i + 1]

C17_Precondition == reference.applied /\ reference.segment_ids # None

C17_SegmentMask ==
    C17_Precondition =>
        \A b \in BatchRows, i \in TargetRows, j \in SourceColumns :
            /\ ~Excluded(b, i, j) => SegmentOf(b, i) = SegmentOf(b, j)
            /\ ~reference.causal =>
                  /\ ~Excluded(b, i, j) <=> SegmentOf(b, i) = SegmentOf(b, j)
                  /\ Excluded(b, i, j) <=> Excluded(b, j, i)
                  /\ reference.segment_ids[1][b + 1] = << 0, 0, 1, 1 >> =>
                        /\ ~Excluded(b, 0, 1) /\ ~Excluded(b, 1, 0)
                        /\ ~Excluded(b, 2, 3) /\ ~Excluded(b, 3, 2)
                        /\ Excluded(b, 1, 2) /\ Excluded(b, 2, 1)

C17_Witness ==
    /\ C17_Precondition
    /\ ~reference.causal
    /\ reference.batch = 1
    /\ reference.segment_ids = Some(<< << 0, 0, 1, 1 >> >>)
    /\ ~Excluded(0, 0, 1)
    /\ Excluded(0, 1, 2)
    /\ Excluded(0, 2, 1)

\* ------------------------------------------------------------------------
\* C15: the GPU decode path passes key and value to the decode kernel with
\* their original head count, the gpu general, tpu and cpu/xla paths pass
\* them repeated to the query head count, and the query is passed as the
\* caller gave it.
\* ------------------------------------------------------------------------
RepeatedToQueryHeads(key_or_value) == [key_or_value EXCEPT !.heads = query.heads]

C15_KvHeadsPerPath ==
    (Done /\ outcome.kind = "call") =>
        /\ outcome.query = query
        /\ Called("flash_decoding") =>
              outcome.key = key /\ outcome.value = val
        /\ ~Called("flash_decoding") =>
              /\ outcome.key = RepeatedToQueryHeads(key)
              /\ outcome.value = RepeatedToQueryHeads(val)

\* The same with the head counts restricted to exact multiples.
C15_KvHeadsPerPathForMultiples ==
    (Done /\ query.heads % key.heads = 0) => C15_KvHeadsPerPath

\* ------------------------------------------------------------------------
\* C19: on the TPU path the kernel's mask argument is the split-out MaskFn
\* bias iff the bias has a MaskFn leaf; with none the kernel gets mask =
\* None, never the Zero sentinel; every leaf that is neither MaskFn nor
\* SegmentId, Causal included, is passed as dense bias.
\* ------------------------------------------------------------------------
C19_Precondition == Done /\ Called("tpu_flash_attention")

AbsentFrom(leaves, kind) == \A i \in 1..Len(leaves) : leaves[i].kind # kind

\* The bias the dispatcher splits is the caller's after collapse and wrapping.
Absent(kind) == AbsentFrom(Leaves(ResolveBias(query, backend, bias)), kind)

C20_ZeroSentinel ==
    Done =>
        LET resolved == ResolveBias(query, backend, bias)
            leaves == Leaves(resolved)
            classes == RequestedClasses
            parts == split(resolved, classes)
        IN  /\ \A i \in 1..Len(classes) :
                  AbsentFrom(leaves, classes[i]) =>
                      /\ parts[i] # None
                      /\ parts[i] = ZeroAttentionBias
                      /\ value(parts[i]) = None
                      /\ parts[i].target_positions = None
            /\ AbsentFrom(leaves, "SegmentId") =>
                  ~Raised("ValueError") /\ outcome.segment_ids = None
            /\ AbsentFrom(leaves, "Causal") => outcome.causal = FALSE
            /\ (IsGpuDecode /\ AbsentFrom(leaves, "MaskFn")) => Raised("RuntimeError")
            /\ (Called("tpu_flash_attention") /\ AbsentFrom(leaves, "MaskFn")) =>
                  outcome.mask = None

C20_Witness ==
    /\ Done
    /\ Called("tpu_flash_attention")
    /\ Absent("MaskFn")
    /\ Absent("SegmentId")
    /\ outcome.mask = None
    /\ outcome.segment_ids = None
    /\ split(ResolveBias(query, backend, bias), << "MaskFn", "SegmentId" >>)[1]
          = ZeroAttentionBias

\* ------------------------------------------------------------------------
\* C18: whatever the interleaving of calls on one built function, the
\* backend downgrade and bias collapse of a call stay local to it: the
\* configuration is never changed, and the resolved backend and the compute
\* path of every call are those its own arguments give with the configured
\* backend and block_size.
\* ------------------------------------------------------------------------
CallIsolated(c) ==
    /\ c.pc \in {"resolved", "done"} =>
          /\ c.local_backend = ResolveBackend(c.query, backend, block_size)
          /\ c.local_bias = ResolveBias(c.query, backend, c.bias)
    /\ c.pc = "done" =>
          c.outcome = jit_attn(c.query, c.key, c.value, c.bias, backend, block_size)

C18_CallsDoNotInterfere ==
    [][/\ backend' = backend
       /\ block_size' = block_size
       /\ \A i \in CallSlots : CallIsolated(calls'[i])]_vars

\* One call has downgraded to xla and collapsed its bias while another,
\* entered on the same function, is dispatched on the configured backend.
C18_Witness ==
    \E i \in CallSlots, j \in CallSlots :
        /\ i # j
        /\ backend = "gpu"
        /\ calls[i].pc = "done"
        /\ calls[i].query.len = 1 + MaxBlock
        /\ calls[i].outcome.backend = "xla"
        /\ calls[j].pc = "done"
        /\ calls[j].query.len = MaxBlock
        /\ calls[j].outcome.backend = "gpu"

\* ------------------------------------------------------------------------
\* C21 as claimed: pad_for_evaluation in a single process on a dataset of n
\* examples, 0 < n < sys.maxsize, returns a dataset whose length is the
\* smallest multiple of per_feed_batch_size that is >= n; its first n
\* elements are the examples in order and the rest are the pad example; a
\* dataset whose n is already a multiple is returned unchanged.
\* ------------------------------------------------------------------------
SmallestMultipleFrom(n, m) ==
    CHOOSE t \in n..(n + m) : t % m = 0 /\ \A k \in n..(t - 1) : k % m # 0

PaddedAsClaimed ==
    LET n == padded.ds.n
        elements == Elements(padded.result)
    IN  /\ padded.kind = "return"
        /\ Len(elements) = SmallestMultipleFrom(n, padded.per_feed_batch_size)
        /\ \A k \in 1..Len(elements) :
              elements[k] = IF k <= n THEN Example(k - 1) ELSE PadExample
        /\ n % padded.per_feed_batch_size = 0 => padded.result = padded.ds

C21_SingleProcess ==
    /\ padded.applied
    /\ padded.process_count = 1
    /\ 0 < padded.ds.n
    /\ padded.ds.n < SysMaxSize

C21_Precondition ==
    /\ C21_SingleProcess
    /\ padded.ds.known \/ padded.ds.n < padded.max_num_examples

C22_RaisesExactlyWhenDocumented ==
    padded.applied =>
        LET n == padded.ds.n
            rejected == \/ n = 0
                        \/ n >= SysMaxSize
                        \/ ~padded.ds.known /\ n > padded.max_num_examples
        IN  /\ rejected <=> padded.kind = "raise"
            /\ (~padded.ds.known /\ 1 <= n /\ n <= padded.max_num_examples) =>
                  padded.kind = "return"

\* ------------------------------------------------------------------------
\* C26: a _FixedLengthDatasetIterator of length L yields exactly L elements
\* and raises StopIteration on every later call, whatever the length of the
\* parent: element k < L is the parent's k-th element if the parent has
\* more than k elements and the pad example otherwise, and the counter i
\* never exceeds L.
\* ------------------------------------------------------------------------
C26_FixedLength ==
    fixed.active =>
        /\ fixed.it.i <= fixed.it.length
        /\ Len(fixed.yielded) = fixed.it.i
        /\ \A k \in 0..(Len(fixed.yielded) - 1) :
              fixed.yielded[k + 1] =
                  IF fixed.it.parent_len > k THEN Example(k) ELSE PadExample
        /\ fixed.stops > 0 => Len(fixed.yielded) = fixed.it.length
        /\ FixedLengthNext(fixed.it).out.kind = "StopIteration"
              <=> Len(fixed.yielded) = fixed.it.length

\* A parent of one example under a length of three: exhausted after the
\* example and two pad examples, and asked again.
C26_Witness ==
    /\ fixed.active
    /\ fixed.it.parent_len = 1
    /\ fixed.it.length = 3
    /\ fixed.yielded = << Example(0), PadExample, PadExample >>
    /\ fixed.stops = MaxStops

\* ------------------------------------------------------------------------
\* C23: shard_dataset(ds, process_count = n, process_index = i) with
\* 0 <= i < n reads exactly ds[i], ds[i+n], ds[i+2n], ...; over i = 0..n-1
\* the shards are pairwise disjoint, together hold every element of ds
\* exactly once, and their sizes differ by at most one (10 elements over 4
\* processes give 3, 3, 2, 2); an index outside [0, n) raises ValueError.
\* ------------------------------------------------------------------------
C23_Precondition == shard.active /\ shard.last.op = "shard_dataset"

SeqRange(seq) == {seq[k] : k \in 1..Len(seq)}

C23_ShardsPartition(len, n) ==
    LET part(j) == SliceElements(shard_dataset(len, n, j).sd)
    IN  /\ \A j \in 0..(n - 1) : Cardinality(SeqRange(part(j))) = Len(part(j))
        /\ \A j1 \in 0..(n - 1), j2 \in 0..(n - 1) :
              /\ j1 # j2 => SeqRange(part(j1)) \cap SeqRange(part(j2)) = {}
              /\ Len(part(j1)) - Len(part(j2)) \in {-1, 0, 1}
        /\ UNION {SeqRange(part(j)) : j \in 0..(n - 1)}
              = {Example(k) : k \in 0..(len - 1)}
        /\ (len = 10 /\ n = 4) =>
              [j \in 1..n |-> Len(part(j - 1))] = << 3, 3, 2, 2 >>

C23_Sharding ==
    C23_Precondition =>
        LET n == shard.last.process_count
            i == shard.last.process_index
            len == shard.sd.parent_len
        IN  /\ shard.last.error = "ValueError" <=> ~(0 <= i /\ i < n)
            /\ shard.last.error = "" =>
                  /\ SliceElements(shard.sd)
                        = SelectSeq([k \in 1..len |-> Example(k - 1)],
                                    LAMBDA e : e.k % n = i)
                  /\ \A k \in 1..Len(SliceElements(shard.sd)) :
                        SliceElements(shard.sd)[k] = Example(i + (k - 1) * n)
                  /\ C23_ShardsPartition(len, n)

C23_Witness ==
    /\ C23_Precondition
    /\ shard.sd.parent_len = 10
    /\ shard.last.process_count = 4
    /\ shard.last.process_index = 2
    /\ SliceElements(shard.sd) = << Example(2), Example(6) >>

\* ------------------------------------------------------------------------
\* C25: on a _ShardDataset, every set_read_config before the first
\* __getitem__ succeeds and sets start = shard_index and step = num_shards;
\* every set_read_config after a __getitem__ raises ValueError and leaves
\* start and step unchanged, so the shard assignment never changes once
\* reading has begun.
\* ------------------------------------------------------------------------
C25_ReadConfigFrozen ==
    [][/\ (shard'.active /\ shard'.last.op = "set_read_config" /\ shard' # shard) =>
             IF shard.sd.iterated
             THEN shard'.last.error = "ValueError" /\ shard'.sd = shard.sd
             ELSE /\ shard'.last.error = ""
                  /\ shard'.sd.start = shard'.last.shard_index
                  /\ shard'.sd.step = shard'.last.num_shards
       /\ (shard'.active /\ shard'.last.op = "getitem") => shard'.sd.iterated
       /\ (shard.active /\ shard.sd.iterated /\ shard'.active) =>
             /\ shard'.sd.iterated
             /\ shard'.sd.start = shard.sd.start
             /\ shard'.sd.step = shard.sd.step]_vars

\* Read config set to (2, 1), an item read, and a later set_read_config to
\* other values refused.
C25_Witness ==
    /\ shard.active
    /\ shard.sd.iterated
    /\ shard.sd.start = 1
    /\ shard.sd.step = 2
    /\ shard.last.op = "set_read_config"
    /\ shard.last.error = "ValueError"
    /\ shard.last.shard_index = 0
    /\ shard.last.num_shards = 3

\* ------------------------------------------------------------------------
\* C24: _set_read_config_recursively sets the given (num_shards,
\* shard_index) on all _ShardDataset nodes reachable through the parents of
\* the source and returns true iff at least one was found, so after
\* Input.dataset() with an input dispatcher no shard dataset of the source
\* is left with its original read config.
\* ------------------------------------------------------------------------
\* The read configs (start, step) of the _ShardDataset nodes of a dataset.
RECURSIVE ReadConfigs(_)
ReadConfigs(ds) ==
    (IF ds.kind = "shard" THEN {<< ds.start, ds.step >>} ELSE {})
    \cup UNION {ReadConfigs(ds.parents[i]) : i \in 1..Len(ds.parents)}

C24_AllShardsConfigured ==
    (pipeline.applied /\ pipeline.dispatcher) =>
        /\ pipeline.found <=> ReadConfigs(pipeline.source) # {}
        /\ pipeline.error = "ValueError" <=> ~pipeline.found
        /\ ReadConfigs(pipeline.ds)
              \subseteq {<< pipeline.shard_index, pipeline.num_shards >>}

\* ------------------------------------------------------------------------
\* _UnbatchDatasetIterator: checkpointing and the index assertion.
\* ------------------------------------------------------------------------
\* What the next `n` calls of next give.
RECURSIVE Outputs(_, _, _)
Outputs(stream, it, n) ==
    IF n = 0 THEN << >>
    ELSE LET step == UnbatchNext(stream, it)
         IN  << step.out >> \o Outputs(stream, step.it, n - 1)

IsElement(out) == out.kind = "element"

\* Calls enough to exhaust the stream from any position.
DrainCalls(stream) == Len(stream) * (MaxRows + 1) + 1

\* A new iterator over the same parent data, given the state of `it`.
Resumed(it) == set_state(UnbatchDatasetIterator, get_state(it))

SameElements(stream, it) ==
    SelectSeq(Outputs(stream, Resumed(it), DrainCalls(stream)), IsElement)
    = SelectSeq(Outputs(stream, it, DrainCalls(stream)), IsElement)

NoRaggedBatch(stream) == \A b \in 1..Len(stream) : ~stream[b].ragged

\* C27 as stated: at every point of an iteration, an iterator over the same
\* parent data given the state get_state returns yields the elements the
\* uninterrupted iterator yields from that point, and the saved parent state
\* is the one from just before the batch that holds the next element.
C27_ResumeFromStateBeforeBatch ==
    unbatch.active =>
        LET stream == unbatch.stream
            it == unbatch.it
            out == UnbatchNext(stream, it).out
        IN  /\ SameElements(stream, it)
            /\ IsElement(out) => get_state(it).parent = out.batch - 1

\* C27, amended: the elements are the same (and, when no batch is ragged,
\* every call gives the same outcome), and the saved parent state is from
\* before the batch that holds the next element, with only batches that
\* yield no element (no leaves, or leaves of different batch dims) between.
C27_ResumeFromStateBeforeSkipped ==
    unbatch.active =>
        LET stream == unbatch.stream
            it == unbatch.it
            out == UnbatchNext(stream, it).out
            saved == get_state(it).parent
        IN  /\ SameElements(stream, it)
            /\ NoRaggedBatch(stream) =>
                  Outputs(stream, Resumed(it), DrainCalls(stream))
                  = Outputs(stream, it, DrainCalls(stream))
            /\ IsElement(out) =>
                  /\ saved < out.batch
                  /\ out.index = get_state(it).index
                  /\ \A b \in (saved + 1)..(out.batch - 1) :
                        ~stream[b].leaves \/ stream[b].ragged

\* set_state was given a state saved in the middle of a batch that follows a
\* batch without leaves, and the call of next after it gave the row saved.
C27_Witness ==
    /\ unbatch.active
    /\ unbatch.restored
    /\ unbatch.saved # None
    /\ unbatch.saved[1].index > 0
    /\ unbatch.last = Outcome("element", unbatch.saved[1].parent + 2,
                              unbatch.saved[1].index)

\* C28: the assertion 0 <= index < batch_size holds whenever __next__
\* reaches it, so no call of next raises AssertionError.
C28_IndexAssertionHolds == unbatch.last.kind # "AssertionError"

====
